---------------------------- MODULE Spec2Model ----------------------------
(***************************************************************************)
(* A model of the analysis core of health_hackathon (src/core):            *)
(*   stats.py          weighted_permutation_test, sig_label, eta_sq_label  *)
(*   band_detection.py compute_band_envelope,                              *)
(*                     detect_significant_band_epochs, apply_notch_filter, *)
(*                     compute_broadband_power,                            *)
(*                     compute_relative_band_power                         *)
(*   plot_bands.py     the run-length merger inside plot_band_activity     *)
(*                                                                         *)
(* Every function is a call that runs from "idle" to "done"; loops of the  *)
(* code are stepped one iteration per action.  Floating point values are   *)
(* exact rationals [nan, num, den]; NaN is the record with nan = TRUE.     *)
(***************************************************************************)
EXTENDS Integers, Sequences, FiniteSets, TLC

(***************************************************************************)
(* Bounds of the model.                                                    *)
(***************************************************************************)
\* longest group handed to weighted_permutation_test
MaxLen == 3
\* largest n_perm handed to weighted_permutation_test
MaxPerm == 2
\* the largest p-value or effect size tried, in steps of 0.0005
MaxTick == 300
\* longest boolean mask handed to the run-length merger
MaxN == 6
\* longest signal handed to detect_significant_band_epochs
MaxSig == 29
\* longest signal handed to apply_notch_filter
MaxNotch == 11
\* longest signal handed to the Welch estimates
MaxW == 5

(***************************************************************************)
(* Numbers.                                                                *)
(***************************************************************************)
NaN == [nan |-> TRUE, num |-> 0, den |-> 1]

Rat(n, d) == [nan |-> FALSE, num |-> n, den |-> d]

IsNaN(x) == x.nan

AbsInt(n) == IF n < 0 THEN -n ELSE n

\* np.abs on a float
AbsF(x) == IF x.nan THEN x ELSE Rat(AbsInt(x.num), x.den)

\* x > y on floats
GtF(x, y) == ~x.nan /\ ~y.nan /\ x.num * y.den > y.num * x.den

\* x >= y on floats: every comparison with NaN is False
GeF(x, y) == ~x.nan /\ ~y.nan /\ x.num * y.den >= y.num * x.den

\* x - y on floats
SubF(x, y) ==
    IF x.nan \/ y.nan THEN NaN
    ELSE Rat(x.num * y.den - y.num * x.den, x.den * y.den)

RECURSIVE SumSeq(_)
SumSeq(s) == IF s = <<>> THEN 0 ELSE Head(s) + SumSeq(Tail(s))

RECURSIVE DotSeq(_, _)
DotSeq(a, b) == IF a = <<>> THEN 0 ELSE Head(a) * Head(b) + DotSeq(Tail(a), Tail(b))

\* the sequences of length 0..n over S
SeqsUpTo(S, n) == UNION {[1..k -> S] : k \in 0..n}

(***************************************************************************)
(* stats.py: weighted_permutation_test                                     *)
(***************************************************************************)
VARIABLES
    p_pc,       \* "idle", "loop" (inside the for of line 75), "done"
    p_caller,   \* the caller's four sequences and the two scalars
    p_in,       \* what the caller's sequences held when the call was made
    p_obs,      \* obs_delta
    p_pool_v,   \* pool_v
    p_pool_w,   \* pool_w
    p_rng,      \* the state of the generator rng; -1 while there is none
    p_i,        \* the loop index i: the trials run so far
    p_idx,      \* idx of the trial just run (pool positions, from 1)
    p_a,        \* [v, w] of pseudo-group A of the trial just run
    p_b,        \* [v, w] of pseudo-group B of the trial just run
    p_dist,     \* perm_dist[0 .. i-1]
    p_result,   \* what the call gave back
    p_prev      \* an earlier completed call: its arguments and its result

permVars == <<p_pc, p_caller, p_in, p_obs, p_pool_v, p_pool_w, p_rng, p_i,
              p_idx, p_a, p_b, p_dist, p_result, p_prev>>

\* (value, weight) pairs a group is made of; weights are > 0
Samples == {<<1, 1>>, <<4, 2>>}

Seeds == {0, 1, 42}

\* a group: values and weights; "short" drops the last weight (a caller's
\* mistake: len(w) # len(v))
Group(pairs, short) ==
    [v |-> [k \in 1..Len(pairs) |-> pairs[k][1]],
     w |-> [k \in 1..(IF short /\ Len(pairs) > 0 THEN Len(pairs) - 1 ELSE Len(pairs))
              |-> pairs[k][2]]]

PermInputs ==
    {[v1 |-> Group(g1, sh = 1).v, w1 |-> Group(g1, sh = 1).w,
      v2 |-> Group(g2, sh = 2).v, w2 |-> Group(g2, sh = 2).w,
      n_perm |-> np, seed |-> sd] :
        g1 \in SeqsUpTo(Samples, MaxLen), g2 \in SeqsUpTo(Samples, MaxLen),
        np \in 0..MaxPerm, sd \in Seeds, sh \in 0..2}

\* the inputs of the reproducibility runs: a degenerate and a full group 1,
\* every n_perm, two seeds
ReproInputs ==
    {a \in PermInputs :
        /\ a.v1 \in {<<1>>, <<1, 4>>} /\ Len(a.w1) = Len(a.v1)
        /\ a.v2 = <<1, 4, 1>> /\ Len(a.w2) = Len(a.v2)
        /\ a.seed \in {0, 42}}

NoResult == [kind |-> "none", obs |-> NaN, p_two |-> NaN, p_one |-> NaN, dist |-> <<>>]

NoPair == [v |-> <<>>, w |-> <<>>]

\* line 61: the degenerate guard
DegenerateLoose(n1, n2) == n1 < 1 \/ n2 < 1

Degenerate(n1, n2) == n1 < 2 \/ n2 < 2

\* _wmean: dot(w / w.sum(), v)
Wmean(v, w) == Rat(DotSeq(w, v), SumSeq(w))

\* a generator made once and then shared by the calls
SeedRngShared(seed, old) == IF old = -1 THEN (seed * 17 + 5) % 64 ELSE old

\* np.random.default_rng(seed): the generator's first state is a function of
\* the seed alone (a 6-bit stand-in for PCG64); old is what an earlier
\* generator left behind
SeedRng(seed, old) == (seed * 17 + 5) % 64

RngNext(s) == (s * 5 + 3) % 64

\* a bounded draw in 0..k-1 from state s
RngDraw(s, k) == (s \div 4) % k

Swap(x, i, j) == [x EXCEPT ![i] = x[j], ![j] = x[i]]

\* rng.permutation(n): Fisher-Yates from the top; gives [idx, rng]
RECURSIVE Shuffle(_, _, _)
Shuffle(x, i, s) ==
    IF i <= 1 THEN [idx |-> x, rng |-> s]
    ELSE Shuffle(Swap(x, i, RngDraw(RngNext(s), i) + 1), i - 1, RngNext(s))

Permutation(n, s) == Shuffle([k \in 1..n |-> k], n, s)

\* x[idx[lo:hi]] (fancy indexing makes a new array), lo < k <= hi
Take(x, idx, lo, hi) == [k \in 1..(hi - lo) |-> x[idx[lo + k]]]

\* pseudo-group A of line 77
GroupA(pv, pw, idx, n1) ==
    [v |-> Take(pv, idx, 0, n1), w |-> Take(pw, idx, 0, n1)]

\* group B with the weights taken in pool order, not through idx
GroupBUnpaired(pv, pw, idx, n1) ==
    [v |-> Take(pv, idx, n1, Len(idx)),
     w |-> [k \in 1..(Len(idx) - n1) |-> pw[n1 + k]]]

\* pseudo-group B of line 78
GroupB(pv, pw, idx, n1) ==
    [v |-> Take(pv, idx, n1, Len(idx)), w |-> Take(pw, idx, n1, Len(idx))]

\* np.mean of a boolean array given as the set of its True positions
MeanTrue(cnt, n) == IF n = 0 THEN NaN ELSE Rat(cnt, n)

RECURSIVE CountGe(_, _)
CountGe(d, x) ==
    IF d = <<>> THEN 0
    ELSE (IF GeF(Head(d), x) THEN 1 ELSE 0) + CountGe(Tail(d), x)

\* line 81
PTwo(dist, obs) ==
    MeanTrue(CountGe([k \in 1..Len(dist) |-> AbsF(dist[k])], AbsF(obs)), Len(dist))

\* line 82
POne(dist, obs) == MeanTrue(CountGe(dist, obs), Len(dist))

PermInit ==
    /\ p_pc = "idle"
    /\ p_caller = [v1 |-> <<>>, w1 |-> <<>>, v2 |-> <<>>, w2 |-> <<>>,
                   n_perm |-> 0, seed |-> 0]
    /\ p_in = p_caller
    /\ p_obs = NaN
    /\ p_pool_v = <<>>
    /\ p_pool_w = <<>>
    /\ p_rng = -1
    /\ p_i = 0
    /\ p_idx = <<>>
    /\ p_a = NoPair
    /\ p_b = NoPair
    /\ p_dist = <<>>
    /\ p_result = NoResult
    /\ p_prev = [args |-> p_caller, result |-> NoResult, gap |-> 0]

\* lines 55-73: the call up to the loop
PermCall(a) ==
    /\ p_pc = "idle"
    /\ p_caller' = a
    /\ p_in' = a
    /\ p_i' = 0
    /\ p_idx' = <<>>
    /\ p_a' = NoPair
    /\ p_b' = NoPair
    /\ p_dist' = <<>>
    /\ IF Degenerate(Len(a.v1), Len(a.v2))
       THEN /\ p_pc' = "done"
            /\ p_result' = [kind |-> "return", obs |-> NaN, p_two |-> NaN,
                            p_one |-> NaN, dist |-> <<>>]
            /\ p_obs' = NaN
            /\ p_pool_v' = <<>>
            /\ p_pool_w' = <<>>
            /\ UNCHANGED p_rng
       ELSE IF Len(a.w1) # Len(a.v1) \/ Len(a.w2) # Len(a.v2)
       THEN \* np.dot of line 66 raises ValueError
            /\ p_pc' = "done"
            /\ p_result' = [NoResult EXCEPT !.kind = "raise"]
            /\ p_obs' = NaN
            /\ p_pool_v' = <<>>
            /\ p_pool_w' = <<>>
            /\ UNCHANGED p_rng
       ELSE /\ p_pc' = "loop"
            /\ p_result' = NoResult
            /\ p_obs' = SubF(Wmean(a.v1, a.w1), Wmean(a.v2, a.w2))
            /\ p_pool_v' = a.v1 \o a.v2
            /\ p_pool_w' = a.w1 \o a.w2
            /\ p_rng' = SeedRng(a.seed, p_rng)

\* lines 75-79: one trial
PermTrial ==
    /\ p_pc = "loop"
    /\ p_i < p_caller.n_perm
    /\ LET n1 == Len(p_caller.v1)
           pm == Permutation(Len(p_pool_v), p_rng)
           ga == GroupA(p_pool_v, p_pool_w, pm.idx, n1)
           gb == GroupB(p_pool_v, p_pool_w, pm.idx, n1)
       IN /\ p_idx' = pm.idx
          /\ p_rng' = pm.rng
          /\ p_a' = ga
          /\ p_b' = gb
          /\ p_dist' = Append(p_dist, SubF(Wmean(ga.v, ga.w), Wmean(gb.v, gb.w)))
    /\ p_i' = p_i + 1
    /\ UNCHANGED <<p_pc, p_caller, p_in, p_obs, p_pool_v, p_pool_w, p_result>>

\* lines 81-84: the p-values and the return
PermReturn ==
    /\ p_pc = "loop"
    /\ p_i >= p_caller.n_perm
    /\ p_pc' = "done"
    /\ p_result' = [kind |-> "return", obs |-> p_obs,
                    p_two |-> PTwo(p_dist, p_obs),
                    p_one |-> POne(p_dist, p_obs),
                    dist |-> p_dist]
    /\ UNCHANGED <<p_caller, p_in, p_obs, p_pool_v, p_pool_w, p_rng, p_i,
                   p_idx, p_a, p_b, p_dist>>

\* the caller takes the result; the locals die.  What the generator held is
\* kept in p_rng, so that a later call could read it if the code let it.
\* With keep, the call is remembered in p_prev; without, p_prev.gap records
\* that another call came after the remembered one.
PermRelease(keep) ==
    /\ p_pc = "done"
    /\ p_pc' = "idle"
    /\ p_prev' = IF keep THEN [args |-> p_in, result |-> p_result, gap |-> 0]
                 ELSE IF p_prev.result.kind = "none" THEN p_prev
                 ELSE [p_prev EXCEPT !.gap = 1]
    /\ p_caller' = [v1 |-> <<>>, w1 |-> <<>>, v2 |-> <<>>, w2 |-> <<>>,
                    n_perm |-> 0, seed |-> 0]
    /\ p_in' = p_caller'
    /\ p_obs' = NaN
    /\ p_pool_v' = <<>>
    /\ p_pool_w' = <<>>
    /\ p_i' = 0
    /\ p_idx' = <<>>
    /\ p_a' = NoPair
    /\ p_b' = NoPair
    /\ p_dist' = <<>>
    /\ p_result' = NoResult
    /\ UNCHANGED p_rng

(***************************************************************************)
(* Claims about weighted_permutation_test.                                 *)
(***************************************************************************)
Sentinel == [kind |-> "return", obs |-> NaN, p_two |-> NaN, p_one |-> NaN, dist |-> <<>>]

P_N1 == Len(p_in.v1)
P_N2 == Len(p_in.v2)
P_Returned == p_pc = "done" /\ p_result.kind = "return"

\* C1, as claimed: a group of fewer than 2 members gives the sentinel (NaN,
\* NaN, NaN, empty) without raising and without a trial, and with both groups
\* of 2 or more the returned null distribution is never empty.
C1_AsClaimed ==
    /\ (p_pc = "done" /\ (P_N1 < 2 \/ P_N2 < 2))
          => (p_result = Sentinel /\ p_i = 0 /\ p_rng = -1)
    /\ (P_Returned /\ P_N1 >= 2 /\ P_N2 >= 2) => p_result.dist # <<>>

\* C1, amended: a group of fewer than 2 members gives the sentinel without
\* raising, without a trial and without a generator; with both groups of 2 or
\* more the returned null distribution is empty exactly when n_perm = 0.
C1_DegenerateGuard ==
    /\ (p_pc = "done" /\ (P_N1 < 2 \/ P_N2 < 2))
          => (p_result = Sentinel /\ p_i = 0 /\ p_rng = -1)
    /\ (P_Returned /\ P_N1 >= 2 /\ P_N2 >= 2)
          => ((p_result.dist = <<>>) <=> (p_in.n_perm = 0))

\* a one-member group 1 beside a group 2 whose weights do not match, n_perm > 0
C1_Witness ==
    /\ p_pc = "done" /\ P_N1 = 1 /\ P_N2 = 2 /\ Len(p_in.w2) = 1
    /\ p_in.n_perm = 2 /\ p_result = Sentinel

\* C2: a completed call whose arguments equal those of an earlier completed
\* call gives the same outcome, whatever calls came in between.
C2_Reproducible ==
    (p_pc = "done" /\ p_prev.result.kind # "none" /\ p_prev.args = p_in)
        => p_result = p_prev.result

\* the same arguments again after another call, two trials each
C2_Witness ==
    /\ p_pc = "done" /\ p_prev.result.kind = "return" /\ p_prev.args = p_in
    /\ p_prev.gap = 1 /\ Len(p_result.dist) = 2
    /\ p_result.dist[1] # p_result.dist[2]

\* the entries of the returned distribution that count for each p-value
C3_TwoSided ==
    {k \in 1..Len(p_result.dist) :
        AbsInt(p_result.dist[k].num) * p_result.obs.den
            >= AbsInt(p_result.obs.num) * p_result.dist[k].den}

C3_OneSided ==
    {k \in 1..Len(p_result.dist) :
        p_result.dist[k].num * p_result.obs.den
            >= p_result.obs.num * p_result.dist[k].den}

\* C3: with both groups of 2 or more and n_perm >= 1, the returned
\* distribution has n_perm entries, p_two_sided is the share of entries with
\* |d| >= |observed_delta|, p_one_sided the share with d >= observed_delta,
\* and both lie in [0, 1].
C3_PValues ==
    (P_Returned /\ P_N1 >= 2 /\ P_N2 >= 2 /\ p_in.n_perm >= 1)
        => /\ Len(p_result.dist) = p_in.n_perm
           /\ p_result.p_two = Rat(Cardinality(C3_TwoSided), p_in.n_perm)
           /\ p_result.p_one = Rat(Cardinality(C3_OneSided), p_in.n_perm)
           /\ \A p \in {p_result.p_two, p_result.p_one} :
                 ~p.nan /\ 0 <= p.num /\ p.num <= p.den

\* two trials, one of them a tie with the observed delta, the other below it
C3_Witness ==
    /\ P_Returned /\ p_in.n_perm = 2 /\ p_result.obs.num > 0
    /\ Cardinality(C3_OneSided) = 1
    /\ \E k \in 1..2 : p_result.dist[k].num * p_result.obs.den
                          = p_result.obs.num * p_result.dist[k].den

\* C4: in every trial idx is a permutation of the pooled positions, group A
\* is the n1 pairs at idx[:n1], group B the n2 pairs at idx[n1:], each value
\* with the weight of its own position; the caller's sequences are as they
\* were when the call was made.
C4_Partition ==
    /\ p_caller = p_in
    /\ (p_pc \in {"loop", "done"} /\ p_i >= 1)
        => LET pv == p_in.v1 \o p_in.v2
               pw == p_in.w1 \o p_in.w2
               n  == P_N1 + P_N2
           IN /\ Len(p_idx) = n
              /\ {p_idx[k] : k \in 1..n} = 1..n
              /\ Len(p_a.v) = P_N1 /\ Len(p_a.w) = P_N1
              /\ Len(p_b.v) = P_N2 /\ Len(p_b.w) = P_N2
              /\ \A k \in 1..P_N1 :
                    p_a.v[k] = pv[p_idx[k]] /\ p_a.w[k] = pw[p_idx[k]]
              /\ \A k \in 1..P_N2 :
                    /\ p_b.v[k] = pv[p_idx[P_N1 + k]]
                    /\ p_b.w[k] = pw[p_idx[P_N1 + k]]

\* a second trial that moved a member of group 2 into group A
C4_Witness ==
    /\ p_pc = "loop" /\ p_i = 2 /\ P_N1 = 2 /\ P_N2 = 3
    /\ \E k \in 1..2 : p_idx[k] > 2
    /\ p_a.w # p_in.w1

(***************************************************************************)
(* stats.py: sig_label, eta_sq_label                                       *)
(***************************************************************************)
VARIABLES
    l_pc,       \* "idle", "done"
    l_fn,       \* the function called: "sig_label", "eta_sq_label", "none"
    l_arg,      \* its argument: [kind, val]
    l_out       \* the label it gave back

labelVars == <<l_pc, l_fn, l_arg, l_out>>

\* x <= y on floats
LeF(x, y) == ~x.nan /\ ~y.nan /\ x.num * y.den <= y.num * x.den

\* x < y on floats
LtF(x, y) == ~x.nan /\ ~y.nan /\ x.num * y.den < y.num * x.den

PyNone == [kind |-> "none", val |-> NaN]

PyFloat(x) == [kind |-> "float", val |-> x]

PyInt(n) == [kind |-> "int", val |-> Rat(n, 1)]

\* the arguments tried: None, NaN, the ints 0 and 1, and the floats
\* -0.0010, -0.0005, 0, 0.0005, ..., MaxTick * 0.0005
LabelInputs ==
    {PyNone, PyFloat(NaN), PyInt(0), PyInt(1)}
        \cup {PyFloat(Rat(5 * n, 10000)) : n \in -2..MaxTick}

\* p is None or (isinstance(p, float) and np.isnan(p))
IsMissing(p) == p.kind = "none" \/ (p.kind = "float" /\ IsNaN(p.val))

\* lines 106-114
sig_label(p) ==
    IF IsMissing(p) THEN "n.a."
    ELSE IF LtF(p.val, Rat(1, 1000)) THEN "***"
    ELSE IF LtF(p.val, Rat(1, 100)) THEN "**"
    ELSE IF LtF(p.val, Rat(5, 100)) THEN "*"
    ELSE "ns"

\* lines 136-144 ("negligeable" stands for the accented label of line 139)
eta_sq_label(eta2) ==
    IF IsMissing(eta2) THEN "n.a."
    ELSE IF LtF(eta2.val, Rat(1, 100)) THEN "negligeable"
    ELSE IF LtF(eta2.val, Rat(6, 100)) THEN "petit"
    ELSE IF LtF(eta2.val, Rat(14, 100)) THEN "moyen"
    ELSE "grand"

LabelInit ==
    /\ l_pc = "idle"
    /\ l_fn = "none"
    /\ l_arg = PyNone
    /\ l_out = ""

SigLabelCall(p) ==
    /\ l_pc = "idle"
    /\ l_pc' = "done"
    /\ l_fn' = "sig_label"
    /\ l_arg' = p
    /\ l_out' = sig_label(p)

EtaLabelCall(e) ==
    /\ l_pc = "idle"
    /\ l_pc' = "done"
    /\ l_fn' = "eta_sq_label"
    /\ l_arg' = e
    /\ l_out' = eta_sq_label(e)

\* the caller takes the label
LabelRelease ==
    /\ l_pc = "done"
    /\ l_pc' = "idle"
    /\ l_fn' = "none"
    /\ l_arg' = PyNone
    /\ l_out' = ""

(***************************************************************************)
(* Claims about the label formatters.                                      *)
(***************************************************************************)
\* the argument in units of 1/10000 when it is a number on the grid
L_Num == l_arg.val.num * (10000 \div l_arg.val.den)

L_IsNaN == l_arg.kind = "float" /\ l_arg.val.nan

\* C5: sig_label gives '***' iff p < 0.001, '**' iff 0.001 <= p < 0.01, '*'
\* iff 0.01 <= p < 0.05, 'ns' iff p >= 0.05; eta_sq_label gives negligible
\* iff e < 0.01, small iff 0.01 <= e < 0.06, medium iff 0.06 <= e < 0.14,
\* large iff e >= 0.14; NaN gives 'n.a.' in both; every call gives a label.
C5_Labels ==
    l_pc = "done" =>
        /\ l_out \in {"n.a.", "***", "**", "*", "ns",
                       "negligeable", "petit", "moyen", "grand"}
        /\ L_IsNaN => l_out = "n.a."
        /\ (l_fn = "sig_label" /\ l_arg.kind # "none" /\ ~L_IsNaN) =>
              /\ (l_out = "***") <=> (L_Num < 10)
              /\ (l_out = "**") <=> (10 <= L_Num /\ L_Num < 100)
              /\ (l_out = "*") <=> (100 <= L_Num /\ L_Num < 500)
              /\ (l_out = "ns") <=> (L_Num >= 500)
        /\ (l_fn = "eta_sq_label" /\ l_arg.kind # "none" /\ ~L_IsNaN) =>
              /\ (l_out = "negligeable") <=> (L_Num < 100)
              /\ (l_out = "petit") <=> (100 <= L_Num /\ L_Num < 600)
              /\ (l_out = "moyen") <=> (600 <= L_Num /\ L_Num < 1400)
              /\ (l_out = "grand") <=> (L_Num >= 1400)

\* eta_sq_label(0.14) is 'grand'
C5_Witness ==
    /\ l_pc = "done" /\ l_fn = "eta_sq_label"
    /\ l_arg = PyFloat(Rat(1400, 10000)) /\ l_out = "grand"

(***************************************************************************)
(* plot_bands.py: the run-length merger of plot_band_activity (one band)   *)
(***************************************************************************)
VARIABLES
    iv_pc,      \* "idle", "spans" (inside the for of line 161), "done", "raised"
    iv_sig,     \* sig = significant[name]: the boolean mask
    iv_times,   \* times: the time axis, in ticks
    iv_dt,      \* dt = times[1] - times[0]
    iv_starts,  \* starts (sample indices from 0)
    iv_ends,    \* ends (exclusive sample indices from 0)
    iv_k,       \* the pairs of zip(starts, ends) already drawn
    iv_spans    \* the (start, end) of every axvspan drawn, in order

ivVars == <<iv_pc, iv_sig, iv_times, iv_dt, iv_starts, iv_ends, iv_k, iv_spans>>

\* first sample time and sample period of the axes tried, in ticks
TimeStarts == {0, 7}

TimePeriods == {1, 3}

\* line 140 of band_detection.py: np.linspace(t_start, t_start + n/fs, n,
\* endpoint=False), with 1/fs = per ticks
TimeAxis(t0, per, n) == [i \in 1..n |-> t0 + (i - 1) * per]

BoolInt(b) == IF b THEN 1 ELSE 0

\* np.diff(sig.astype(int))
Diff(sig) == [i \in 1..(Len(sig) - 1) |-> BoolInt(sig[i + 1]) - BoolInt(sig[i])]

\* np.where(x == val)[0] + 1: the indices from 0, in increasing order, plus 1
RECURSIVE WherePlus1(_, _, _)
WherePlus1(x, val, i) ==
    IF i > Len(x) THEN <<>>
    ELSE (IF x[i] = val THEN <<i>> ELSE <<>>) \o WherePlus1(x, val, i + 1)

\* starts with the edge of lines 156-157 left out
StartsOfNoEdge(sig) == WherePlus1(Diff(sig), 1, 1)

\* lines 152, 156-157
StartsOf(sig) ==
    (IF sig[1] THEN <<0>> ELSE <<>>) \o WherePlus1(Diff(sig), 1, 1)

\* ends with the edge of lines 158-159 left out
EndsOfNoEdge(sig) == WherePlus1(Diff(sig), -1, 1)

\* lines 153, 158-159
EndsOf(sig) ==
    WherePlus1(Diff(sig), -1, 1) \o (IF sig[Len(sig)] THEN <<Len(sig)>> ELSE <<>>)

MinInt(a, b) == IF a < b THEN a ELSE b

\* line 162: axvspan(times[s], times[e - 1] + dt)
SpanOf(times, dt, st, en) == <<times[st + 1], times[en] + dt>>

IvInit ==
    /\ iv_pc = "idle"
    /\ iv_sig = <<>>
    /\ iv_times = <<>>
    /\ iv_dt = 0
    /\ iv_starts = <<>>
    /\ iv_ends = <<>>
    /\ iv_k = 0
    /\ iv_spans = <<>>

\* lines 144-159: dt, then the starts and the ends of the runs
IvRuns(sig, t0, per) ==
    /\ iv_pc = "idle"
    /\ iv_sig' = sig
    /\ iv_times' = TimeAxis(t0, per, Len(sig))
    /\ iv_k' = 0
    /\ iv_spans' = <<>>
    /\ IF Len(sig) < 2
       THEN \* times[1] of line 144 raises IndexError
            /\ iv_pc' = "raised"
            /\ iv_dt' = 0
            /\ iv_starts' = <<>>
            /\ iv_ends' = <<>>
       ELSE /\ iv_pc' = "spans"
            /\ iv_dt' = iv_times'[2] - iv_times'[1]
            /\ iv_starts' = StartsOf(sig)
            /\ iv_ends' = EndsOf(sig)

\* lines 161-163: one pair of zip(starts, ends)
IvSpan ==
    /\ iv_pc = "spans"
    /\ iv_k < MinInt(Len(iv_starts), Len(iv_ends))
    /\ iv_spans' = Append(iv_spans,
                          SpanOf(iv_times, iv_dt, iv_starts[iv_k + 1], iv_ends[iv_k + 1]))
    /\ iv_k' = iv_k + 1
    /\ UNCHANGED <<iv_pc, iv_sig, iv_times, iv_dt, iv_starts, iv_ends>>

\* zip is exhausted
IvDone ==
    /\ iv_pc = "spans"
    /\ iv_k >= MinInt(Len(iv_starts), Len(iv_ends))
    /\ iv_pc' = "done"
    /\ UNCHANGED <<iv_sig, iv_times, iv_dt, iv_starts, iv_ends, iv_k, iv_spans>>

\* the next band, or the next figure
IvRelease ==
    /\ iv_pc \in {"done", "raised"}
    /\ iv_pc' = "idle"
    /\ iv_sig' = <<>>
    /\ iv_times' = <<>>
    /\ iv_dt' = 0
    /\ iv_starts' = <<>>
    /\ iv_ends' = <<>>
    /\ iv_k' = 0
    /\ iv_spans' = <<>>

(***************************************************************************)
(* Claims about the run-length merger.                                     *)
(***************************************************************************)
\* the mask rebuilt from the spans: sample i is covered when its time lies
\* in some span, the end excluded
IV_Covered(i) ==
    \E j \in 1..Len(iv_spans) :
        iv_spans[j][1] <= iv_times[i] /\ iv_times[i] < iv_spans[j][2]

\* C6: for a mask of 2 or more samples, the mask rebuilt from the spans drawn
\* is the mask given: no True sample is lost and no False sample is covered.
C6_RoundTrip ==
    iv_pc = "done" => \A i \in 1..Len(iv_sig) : iv_sig[i] <=> IV_Covered(i)

\* two runs, one from the first sample and one up to the last
C6_Witness ==
    /\ iv_pc = "done" /\ Len(iv_sig) >= 4 /\ Len(iv_spans) = 2
    /\ iv_sig[1] /\ iv_sig[Len(iv_sig)] /\ iv_dt = 3

\* the maximal True runs of the mask, as <<first, last>> sample numbers from 1
IV_Runs ==
    {r \in (1..Len(iv_sig)) \X (1..Len(iv_sig)) :
        /\ r[1] <= r[2]
        /\ \A i \in r[1]..r[2] : iv_sig[i]
        /\ r[1] = 1 \/ ~iv_sig[r[1] - 1]
        /\ r[2] = Len(iv_sig) \/ ~iv_sig[r[2] + 1]}

\* C12: for a mask of 2 or more samples there are as many starts as ends; the
\* intervals drawn are the maximal True runs, each once, in increasing time
\* order, each with start < end, with a gap between one and the next; runs
\* at the first or last sample are drawn; an all-False mask draws nothing and
\* an all-True mask one interval from times[0] to times[n-1] + dt.
C12_MergerShape ==
    iv_pc = "done" =>
        /\ Len(iv_starts) = Len(iv_ends)
        /\ Len(iv_spans) = Cardinality(IV_Runs)
        /\ {iv_spans[j] : j \in 1..Len(iv_spans)}
             = {<<iv_times[r[1]], iv_times[r[2]] + iv_dt>> : r \in IV_Runs}
        /\ \A j \in 1..Len(iv_spans) : iv_spans[j][1] < iv_spans[j][2]
        /\ \A j \in 1..(Len(iv_spans) - 1) : iv_spans[j][2] < iv_spans[j + 1][1]
        /\ (\A i \in 1..Len(iv_sig) : ~iv_sig[i]) => iv_spans = <<>>
        /\ (\A i \in 1..Len(iv_sig) : iv_sig[i]) =>
             iv_spans = << <<iv_times[1], iv_times[Len(iv_sig)] + iv_dt>> >>

\* three runs, the first from the first sample and the last up to the last
C12_Witness ==
    /\ iv_pc = "done" /\ Len(iv_spans) = 3 /\ iv_sig[1] /\ iv_sig[Len(iv_sig)]
    /\ iv_spans[1][1] = iv_times[1]
    /\ iv_spans[3][2] = iv_times[Len(iv_sig)] + iv_dt

(***************************************************************************)
(* band_detection.py: compute_band_envelope and                            *)
(* detect_significant_band_epochs                                          *)
(*                                                                         *)
(* What butter, filtfilt and hilbert compute is scipy's: the magnitude of  *)
(* the analytic signal of a band is any sequence of non-negative numbers,  *)
(* one per sample, drawn here from Magnitudes.  Dicts are functions from   *)
(* band names; a band set is a sequence of [name, f_low, f_high] with      *)
(* frequencies in tenths of a hertz.                                       *)
(***************************************************************************)
VARIABLES
    d_pc,       \* "idle", "env" (inside the for of line 75), "done", "raised"
    d_args,     \* [n, fs, t_start, smooth_ms, q, given, bands]
    d_todo,     \* the bands the loop of line 75 has still to visit
    d_envs,     \* envelopes: band name -> envelope
    d_wn,       \* [called, lo, hi]: the cutoffs last handed to butter
    d_last,     \* [name, raw, kernel] of the band last enveloped; kernel is
                \* <<>> when line 87 skips the smoothing
    d_result    \* [times, envelopes, significant, thresholds]

detVars == <<d_pc, d_args, d_todo, d_envs, d_wn, d_last, d_result>>

\* the order of the Butterworth design of line 80
ButterOrder == 4

\* the coefficients b (and a) of a band-pass of that order
BandpassTaps == 2 * ButterOrder + 1

\* filtfilt's default padlen; it raises unless len(x) > padlen
FiltfiltPadlen(ntaps) == 3 * ntaps

\* lines 33-40
FREQ_BANDS ==
    << [name |-> "low", f_low |-> 2, f_high |-> 70],
       [name |-> "theta", f_low |-> 70, f_high |-> 120],
       [name |-> "beta", f_low |-> 150, f_high |-> 300],
       [name |-> "high", f_low |-> 300, f_high |-> 800] >>

\* the band sets a caller passes
BandSets ==
    { <<>>,
      << [name |-> "alpha", f_low |-> 80, f_high |-> 120] >>,
      << [name |-> "theta", f_low |-> 40, f_high |-> 80],
         [name |-> "alpha", f_low |-> 80, f_high |-> 120] >> }

EmptyDict == [b \in {} |-> <<>>]

NoDetResult ==
    [times |-> <<>>, envelopes |-> EmptyDict, significant |-> EmptyDict,
     thresholds |-> EmptyDict]

\* signal lengths tried: empty, the longest filtfilt refuses, and above
SigLens == {0, FiltfiltPadlen(BandpassTaps)} \cup
           (FiltfiltPadlen(BandpassTaps) + 1)..MaxSig

SampleRates == {100, 250}

\* smooth_sec in milliseconds
SmoothMs == {0, 5, 26, 300}

Percentiles == {0, 50, 75, 100}

\* band sets whose edges the clamps of lines 77-78 have to deal with: f_low
\* above Nyquist, f_high at 0, f_low within 0.5 Hz of Nyquist, and on it
EdgeBandSets ==
    { << [name |-> "alpha", f_low |-> 80, f_high |-> 120],
         [name |-> "over", f_low |-> 600, f_high |-> 1000] >>,
      << [name |-> "under", f_low |-> -10, f_high |-> 0] >>,
      << [name |-> "near", f_low |-> 497, f_high |-> 600] >>,
      << [name |-> "at", f_low |-> 495, f_high |-> 600] >> }

\* sampling rates tried with them, in hertz
EdgeRates == {1, 100}

DetInputs ==
    [n : SigLens, fs : SampleRates, t_start : {0}, smooth_ms : SmoothMs,
     q : Percentiles, given : {TRUE}, bands : BandSets]
      \cup [n : SigLens, fs : SampleRates, t_start : {0}, smooth_ms : SmoothMs,
            q : Percentiles, given : {FALSE}, bands : {<<>>}]
      \cup [n : {FiltfiltPadlen(BandpassTaps) + 1}, fs : EdgeRates, t_start : {0},
            smooth_ms : {0}, q : {50}, given : {TRUE}, bands : EdgeBandSets]
      \cup [n : {FiltfiltPadlen(BandpassTaps) + 1}, fs : {1}, t_start : {0},
            smooth_ms : {0}, q : {50}, given : {FALSE}, bands : {<<>>}]

\* np.abs(hilbert(filtered)): a flat zero, a sawtooth and a scrambled cycle
Magnitudes == {[a |-> 0, m |-> 1], [a |-> 1, m |-> 4], [a |-> 3, m |-> 5]}

Magnitude(mag, n) == [i \in 1..n |-> (mag.a * i) % mag.m]

MaxInt(a, b) == IF a > b THEN a ELSE b

NoWn == [called |-> FALSE, lo |-> Rat(0, 1), hi |-> Rat(0, 1)]

\* line 72: fs / 2.0, in tenths of a hertz
Nyquist(fs) == 5 * fs

\* line 77: max(f_low, 0.5) / nyquist
CutLo(f_low, fs) == Rat(MaxInt(f_low, 5), Nyquist(fs))

\* line 78: min(f_high, nyquist - 0.5) / nyquist
CutHi(f_high, fs) == Rat(MinInt(f_high, Nyquist(fs) - 5), Nyquist(fs))

\* line 80: butter wants 0 < Wn < 1 of each critical frequency
ButterInRange(wn) == 0 < wn.num /\ wn.num < wn.den

\* line 80: a scipy that compares the two also wants Wn[0] < Wn[1]
ButterAccepts(lo, hi, ordered) ==
    /\ ButterInRange(lo) /\ ButterInRange(hi)
    /\ ordered => lo.num * hi.den < hi.num * lo.den

NoLast == [name |-> "", raw |-> <<>>, kernel |-> <<>>]

\* a kernel length rounded to the nearest sample, halves to the even one
NSmoothRound(smooth_ms, fs) ==
    LET p == smooth_ms * fs
        q == p \div 1000
        r == p % 1000
    IN MaxInt(1, IF r > 500 \/ (r = 500 /\ q % 2 = 1) THEN q + 1 ELSE q)

\* line 88: max(1, int(smooth_sec * fs))
NSmooth(smooth_ms, fs) == MaxInt(1, (smooth_ms * fs) \div 1000)

\* line 89: np.ones(n_smooth) / n_smooth
Kernel(n_smooth) == [i \in 1..n_smooth |-> Rat(1, n_smooth)]

\* x[lo] + ... + x[hi], indices from 1
RECURSIVE SumRange(_, _, _)
SumRange(x, lo, hi) == IF lo > hi THEN 0 ELSE x[lo] + SumRange(x, lo + 1, hi)

\* entry k (from 0) of the full convolution of x with M ones
FullOnes(x, M, k) == SumRange(x, MaxInt(0, k - M + 1) + 1, MinInt(Len(x) - 1, k) + 1)

\* lines 89-90: np.convolve(x, np.ones(M) / M, mode="same"): the middle
\* max(len(x), M) entries of the full convolution
ConvolveSame(x, M) ==
    [i \in 1..MaxInt(Len(x), M) |->
        Rat(FullOnes(x, M, (i - 1) + (MinInt(Len(x), M) - 1) \div 2), M)]

\* lines 84-90
Envelope(raw, smooth_ms, fs) ==
    IF smooth_ms > 0 THEN ConvolveSame(raw, NSmooth(smooth_ms, fs))
    ELSE [i \in 1..Len(raw) |-> Rat(raw[i], 1)]

\* a sorted copy of s: entry k is the value with fewer than k entries below
\* it and at least k entries not above it
SortInts(s) ==
    [k \in 1..Len(s) |->
        CHOOSE x \in {s[i] : i \in 1..Len(s)} :
            /\ Cardinality({i \in 1..Len(s) : s[i] < x}) < k
            /\ Cardinality({i \in 1..Len(s) : s[i] <= x}) >= k]

\* line 146: np.percentile(env, q), linear interpolation between the two
\* nearest ranks; the samples of env share one denominator
Percentile(env, q) ==
    LET srt == SortInts([i \in 1..Len(env) |-> env[i].num])
        pos == q * (Len(env) - 1)
        lo  == pos \div 100
        rem == pos % 100
    IN IF rem = 0 THEN Rat(100 * srt[lo + 1], 100 * env[1].den)
       ELSE Rat(100 * srt[lo + 1] + rem * (srt[lo + 2] - srt[lo + 1]),
                100 * env[1].den)

\* a mask that leaves out the samples equal to the threshold
AboveStrict(env, thr) == [i \in 1..Len(env) |-> GtF(env[i], thr)]

\* line 148: env >= thr
AtOrAbove(env, thr) == [i \in 1..Len(env) |-> GeF(env[i], thr)]

DetInit ==
    /\ d_pc = "idle"
    /\ d_args = [n |-> 0, fs |-> 100, t_start |-> 0, smooth_ms |-> 0, q |-> 0,
                 given |-> TRUE, bands |-> <<>>]
    /\ d_todo = <<>>
    /\ d_envs = EmptyDict
    /\ d_wn = NoWn
    /\ d_last = NoLast
    /\ d_result = NoDetResult

\* lines 135-138 and 69-73: the call, up to the loop over the bands
DetCall(a) ==
    /\ d_pc = "idle"
    /\ d_pc' = "env"
    /\ d_args' = a
    /\ d_todo' = IF a.given THEN a.bands ELSE FREQ_BANDS
    /\ d_envs' = EmptyDict
    /\ d_wn' = NoWn
    /\ d_last' = NoLast
    /\ d_result' = NoDetResult

\* lines 75-92: one band
DetEnvelope(mag, ordered) ==
    /\ d_pc = "env"
    /\ d_todo # <<>>
    /\ d_wn' = [called |-> TRUE, lo |-> CutLo(Head(d_todo).f_low, d_args.fs),
                hi |-> CutHi(Head(d_todo).f_high, d_args.fs)]
    /\ IF \/ ~ButterAccepts(d_wn'.lo, d_wn'.hi, ordered)
          \/ d_args.n <= FiltfiltPadlen(BandpassTaps)
       THEN \* butter of line 80 or filtfilt of line 81 raises ValueError
            /\ d_pc' = "raised"
            /\ d_todo' = <<>>
            /\ d_envs' = EmptyDict
            /\ d_last' = NoLast
       ELSE /\ d_pc' = "env"
            /\ d_todo' = Tail(d_todo)
            /\ d_last' = [name |-> Head(d_todo).name,
                          raw |-> Magnitude(mag, d_args.n),
                          kernel |-> IF d_args.smooth_ms > 0
                                     THEN Kernel(NSmooth(d_args.smooth_ms, d_args.fs))
                                     ELSE <<>>]
            /\ d_envs' = [b \in DOMAIN d_envs \cup {Head(d_todo).name} |->
                            IF b = Head(d_todo).name
                            THEN Envelope(Magnitude(mag, d_args.n),
                                          d_args.smooth_ms, d_args.fs)
                            ELSE d_envs[b]]
    /\ UNCHANGED <<d_args, d_result>>

\* lines 94 and 140-155: the time axis, the thresholds and the masks
DetThreshold ==
    /\ d_pc = "env"
    /\ d_todo = <<>>
    /\ d_pc' = "done"
    /\ d_result' =
         [times |-> TimeAxis(d_args.t_start, 1, d_args.n),
          envelopes |-> d_envs,
          significant |-> [b \in DOMAIN d_envs |->
                              AtOrAbove(d_envs[b], Percentile(d_envs[b], d_args.q))],
          thresholds |-> [b \in DOMAIN d_envs |-> Percentile(d_envs[b], d_args.q)]]
    /\ UNCHANGED <<d_args, d_todo, d_envs, d_wn, d_last>>

\* the caller takes the result
DetRelease ==
    /\ d_pc \in {"done", "raised"}
    /\ d_pc' = "idle"
    /\ d_args' = [n |-> 0, fs |-> 100, t_start |-> 0, smooth_ms |-> 0, q |-> 0,
                  given |-> TRUE, bands |-> <<>>]
    /\ d_todo' = <<>>
    /\ d_envs' = EmptyDict
    /\ d_wn' = NoWn
    /\ d_last' = NoLast
    /\ d_result' = NoDetResult

(***************************************************************************)
(* Claims about detect_significant_band_epochs.                            *)
(***************************************************************************)
\* the names of the band set the call works on
D_Names ==
    LET bs == IF d_args.given THEN d_args.bands ELSE FREQ_BANDS
    IN {bs[k].name : k \in 1..Len(bs)}

\* the k-th smallest numerator of env: the least value with k entries at or
\* below it
D_Rank(env, k) ==
    LET vals == {env[i].num : i \in 1..Len(env)}
        ok == {x \in vals : Cardinality({i \in 1..Len(env) : env[i].num <= x}) >= k}
    IN CHOOSE x \in ok : \A y \in ok : x <= y

\* thr is the q-th percentile of env: between the two nearest ranks, in the
\* proportion of the fractional rank q * (N - 1) / 100
D_IsPercentile(thr, env, q) ==
    LET pos == q * (Len(env) - 1)
        lo  == pos \div 100
        rem == pos % 100
        hi  == IF rem = 0 THEN lo ELSE lo + 1
    IN /\ ~thr.nan
       /\ thr.num * 100 * env[1].den
            = ((100 - rem) * D_Rank(env, lo + 1) + rem * D_Rank(env, hi + 1)) * thr.den

C10_Aligned ==
    d_pc = "done" =>
        /\ Len(d_result.times) = d_args.n
        /\ \A b \in DOMAIN d_result.envelopes :
             /\ Len(d_result.envelopes[b]) = d_args.n
             /\ Len(d_result.significant[b]) = d_args.n

\* C11: whatever the band edges and the sampling rate, the two cutoffs
\* handed to butter lie strictly between 0 and 1.
C11_CutoffsInside ==
    d_wn.called =>
        /\ 0 < d_wn.lo.num /\ d_wn.lo.num < d_wn.lo.den
        /\ 0 < d_wn.hi.num /\ d_wn.hi.num < d_wn.hi.den

\* smooth_sec * fs rounded to the nearest whole number of samples
D_Rounded ==
    LET p == d_args.smooth_ms * d_args.fs
    IN IF 2 * (p % 1000) > 1000 \/ (2 * (p % 1000) = 1000 /\ (p \div 1000) % 2 = 1)
       THEN p \div 1000 + 1 ELSE p \div 1000

\* a band has been enveloped in the call under way
D_Enveloped == d_pc \in {"env", "done"} /\ d_last.name # ""

\* C13 as stated: the kernel has max(1, round(smooth_sec * fs)) coefficients
C13_AsClaimed ==
    (D_Enveloped /\ d_args.smooth_ms > 0) =>
        Len(d_last.kernel) = (IF D_Rounded < 1 THEN 1 ELSE D_Rounded)

\* C13: for smooth_sec > 0 the kernel has max(1, int(smooth_sec * fs))
\* coefficients, the product cut to its whole part, all equal and summing
\* to 1; for smooth_sec == 0 there is no kernel and the envelope is the raw
\* magnitude.
C13_KernelLength ==
    D_Enveloped =>
        /\ d_args.smooth_ms > 0 =>
             LET L == Len(d_last.kernel)
             IN /\ L >= 1
                /\ \/ 1000 * L <= d_args.smooth_ms * d_args.fs
                      /\ d_args.smooth_ms * d_args.fs < 1000 * (L + 1)
                   \/ L = 1 /\ d_args.smooth_ms * d_args.fs < 1000
                /\ \A i \in 1..L :
                     ~d_last.kernel[i].nan /\ d_last.kernel[i].num * L = d_last.kernel[i].den
        /\ d_args.smooth_ms = 0 =>
             /\ d_last.kernel = <<>>
             /\ Len(d_envs[d_last.name]) = Len(d_last.raw)
             /\ \A i \in 1..Len(d_last.raw) :
                  d_envs[d_last.name][i].num = d_last.raw[i] * d_envs[d_last.name][i].den

\* 0.026 s at 100 Hz: 2.6 samples, a kernel of 2
C13_Witness ==
    /\ D_Enveloped /\ d_args.smooth_ms = 26 /\ d_args.fs = 100
    /\ Len(d_last.kernel) = 2 /\ d_last.kernel[1] = Rat(1, 2)
    /\ \E i \in 1..Len(d_last.raw) : d_last.raw[i] # 0

(***************************************************************************)
(* band_detection.py: apply_notch_filter                                   *)
(*                                                                         *)
(* Arrays live in a heap of numbered objects, so that a name bound to the  *)
(* caller's array and a name bound to a copy of it differ.                 *)
(***************************************************************************)
VARIABLES
    n_pc,       \* "idle", "done", "raised"
    n_heap,     \* object number -> the samples of that array
    n_arg,      \* [obj, is_float, fs, notch_freq, given]: the call
    n_lfp,      \* the object the local name lfp is bound to; 0 for none
    n_filt,     \* [called, len]: whether filtfilt ran, and on how many samples
    n_ret,      \* the object returned; 0 for none
    n_why       \* what raised: "", "iirnotch", "filtfilt"

notchVars == <<n_pc, n_heap, n_arg, n_lfp, n_filt, n_ret, n_why>>

\* iirnotch gives a second-order section: three b and three a
NotchTaps == 3

\* the signals tried: every length up to MaxNotch, three shapes
NotchSignals == {Magnitude(mag, n) : mag \in Magnitudes, n \in 0..MaxNotch}

\* notch_freq tried, in hertz; the sampling rates are SampleRates
NotchFreqs == {50, 60}

NoHeap == [o \in {} |-> <<>>]

NoNotchArg == [obj |-> 0, is_float |-> FALSE, fs |-> 0, notch_freq |-> 0, given |-> <<>>]

\* np.asarray(x, dtype=float): the array itself when it is a float array
\* already, a new array otherwise.  Gives [heap, obj].
AsArray(heap, obj, is_float) ==
    IF is_float THEN [heap |-> heap, obj |-> obj]
    ELSE [heap |-> [o \in DOMAIN heap \cup {obj + 1} |->
                       IF o = obj + 1 THEN heap[obj] ELSE heap[o]],
          obj |-> obj + 1]

\* a new array holding x.  Gives [heap, obj].
NewArray(heap, x) ==
    LET o == Cardinality(DOMAIN heap) + 1
    IN [heap |-> [k \in DOMAIN heap \cup {o} |-> IF k = o THEN x ELSE heap[k]],
        obj |-> o]

\* iirnotch wants 0 < w0 < 1, w0 = notch_freq / (fs / 2)
NotchFreqOk(notch_freq, fs) == 0 < notch_freq /\ 2 * notch_freq < fs

\* a guard that lets a signal of exactly padlen samples through
NotchSkipStrict(n, padlen) == n < padlen

\* line 190
NotchSkip(n, padlen) == n <= padlen

\* what filtfilt may give for x: as many samples as x
FilterOutputs(x) == {[i \in 1..Len(x) |-> x[i] - d] : d \in {0, 1}}

NotchInit ==
    /\ n_pc = "idle"
    /\ n_heap = NoHeap
    /\ n_arg = NoNotchArg
    /\ n_lfp = 0
    /\ n_filt = [called |-> FALSE, len |-> 0]
    /\ n_ret = 0
    /\ n_why = ""

\* lines 186-192
NotchCall(x, is_float, fs, notch_freq) ==
    /\ n_pc = "idle"
    /\ n_arg' = [obj |-> 1, is_float |-> is_float, fs |-> fs,
                 notch_freq |-> notch_freq, given |-> x]
    /\ LET arr == AsArray([o \in {1} |-> x], 1, is_float)
           n == Len(arr.heap[arr.obj])
           padlen == FiltfiltPadlen(MaxInt(NotchTaps, NotchTaps))
       IN /\ n_lfp' = arr.obj
          /\ IF ~NotchFreqOk(notch_freq, fs)
             THEN /\ n_pc' = "raised"
                  /\ n_why' = "iirnotch"
                  /\ n_heap' = arr.heap
                  /\ n_filt' = [called |-> FALSE, len |-> 0]
                  /\ n_ret' = 0
             ELSE IF NotchSkip(n, padlen)
             THEN \* lfp.copy()
                  /\ n_pc' = "done"
                  /\ n_why' = ""
                  /\ n_heap' = NewArray(arr.heap, arr.heap[arr.obj]).heap
                  /\ n_ret' = NewArray(arr.heap, arr.heap[arr.obj]).obj
                  /\ n_filt' = [called |-> FALSE, len |-> 0]
             ELSE IF n <= FiltfiltPadlen(NotchTaps)
             THEN \* filtfilt raises ValueError
                  /\ n_pc' = "raised"
                  /\ n_why' = "filtfilt"
                  /\ n_heap' = arr.heap
                  /\ n_filt' = [called |-> TRUE, len |-> n]
                  /\ n_ret' = 0
             ELSE \E y \in FilterOutputs(arr.heap[arr.obj]) :
                  /\ n_pc' = "done"
                  /\ n_why' = ""
                  /\ n_heap' = NewArray(arr.heap, y).heap
                  /\ n_ret' = NewArray(arr.heap, y).obj
                  /\ n_filt' = [called |-> TRUE, len |-> n]

\* the caller takes the result
NotchRelease ==
    /\ n_pc \in {"done", "raised"}
    /\ n_pc' = "idle"
    /\ n_heap' = NoHeap
    /\ n_arg' = NoNotchArg
    /\ n_lfp' = 0
    /\ n_filt' = [called |-> FALSE, len |-> 0]
    /\ n_ret' = 0
    /\ n_why' = ""

(***************************************************************************)
(* Claims about apply_notch_filter.                                        *)
(***************************************************************************)
\* C9: a signal shorter than padlen = 3 * max(len(b), len(a)) = 9 comes back
\* unfiltered with the same length and samples; whatever the length, filtfilt
\* runs only on more than padlen samples and no call fails in it; the
\* caller's array is never changed and the result is another array.
C9_NotchLength ==
    /\ n_pc = "raised" => n_why = "iirnotch"
    /\ n_filt.called => (n_filt.len > 9 /\ n_filt.len = Len(n_arg.given))
    /\ n_pc \in {"done", "raised"} => n_heap[n_arg.obj] = n_arg.given
    /\ n_pc = "done" =>
         /\ n_ret # n_arg.obj /\ n_ret \in DOMAIN n_heap
         /\ Len(n_heap[n_ret]) = Len(n_arg.given)
         /\ Len(n_arg.given) < 9 => (~n_filt.called /\ n_heap[n_ret] = n_arg.given)

\* a float array of exactly padlen samples, returned as a copy
C9_Witness ==
    /\ n_pc = "done" /\ Len(n_arg.given) = 9 /\ n_arg.is_float
    /\ ~n_filt.called /\ n_heap[n_ret] = n_arg.given /\ n_ret # n_lfp
    /\ \E i \in 1..9 : n_arg.given[i] # 0

(***************************************************************************)
(* band_detection.py: compute_broadband_power, compute_relative_band_power *)
(*                                                                         *)
(* A spectral density is "fin" (a non-negative integer), "inf" or "nan".   *)
(* The signal is known by its length and by what welch makes of it: all    *)
(* zero, finite, or holding a NaN or an infinity.  Band edges are in half  *)
(* hertz, sampling rates in tenths of a hertz.                             *)
(***************************************************************************)
VARIABLES
    w_pc,       \* "idle", "done", "raised"
    w_fn,       \* "broadband", "relative", "" before a call
    w_args,     \* [n, kind, fs, nperseg, f_low, f_high, f_total_low, f_total_high]
    w_seg,      \* [nperseg, noverlap] handed to welch; zeros when not reached
    w_psd,      \* what welch gave, bin k at index k + 1; <<>> when not reached
    w_out,      \* the float returned
    w_prev      \* [fn, n, fs, nperseg, seg] of the call before, when kept

welchVars == <<w_pc, w_fn, w_args, w_seg, w_psd, w_out, w_prev>>

WFin(v) == [k |-> "fin", v |-> v]

WInf == [k |-> "inf", v |-> 0]

WNan == [k |-> "nan", v |-> 0]

\* sampling rates tried, in tenths of a hertz: 0.1, 0.3, 1 and 2 Hz
WelchRates == {1, 3, 10, 20}

\* nperseg tried: None, and six integers
NoNperseg == [given |-> FALSE, val |-> 0]

Npersegs == {NoNperseg} \cup {[given |-> TRUE, val |-> v] : v \in {-1, 0, 1, 2, 3, 8}}

\* band edges tried, in half hertz
HalfHz == {0, 1, 2}

SignalKinds == {"zero", "finite", "nonfinite"}

NoWelchArgs ==
    [n |-> 0, kind |-> "zero", fs |-> 0, nperseg |-> NoNperseg, f_low |-> 0,
     f_high |-> 0, f_total_low |-> 0, f_total_high |-> 0]

NoSeg == [nperseg |-> 0, noverlap |-> 0]

NoPrev == [fn |-> "", n |-> 0, fs |-> 0, nperseg |-> NoNperseg, seg |-> NoSeg]

\* a segment length that is not clamped to the signal
SegLenUnclamped(nperseg, fs, n) ==
    IF nperseg.given THEN nperseg.val ELSE (4 * fs) \div 10

\* lines 229, 274: min(nperseg if nperseg is not None else int(4 * fs), n)
SegLen(nperseg, fs, n) ==
    MinInt(IF nperseg.given THEN nperseg.val ELSE (4 * fs) \div 10, n)

\* lines 230, 275
Overlap(seglen) == MinInt(seglen \div 2, seglen - 1)

\* welch raises on a segment length below 1 or an overlap not below it
WelchAccepts(seg) == seg.nperseg >= 1 /\ seg.noverlap < seg.nperseg

\* the densities welch may give: one per bin 0 .. nperseg // 2; a segment of
\* one sample less its own mean is zero
PsdOf(kind, seglen) ==
    LET bins == 1..(seglen \div 2 + 1)
    IN CASE kind = "zero" -> {[i \in bins |-> WFin(0)]}
         [] kind = "nonfinite" -> {[i \in bins |-> WNan]}
         [] seglen = 1 -> {[i \in bins |-> WFin(0)]}
         [] OTHER -> [bins -> {WFin(0), WFin(1), WInf}]

\* freqs[k] = k * fs / nperseg against an edge given in half hertz
InBand(k, fs, seglen, lo, hi) ==
    2 * k * fs >= 10 * lo * seglen /\ 2 * k * fs <= 10 * hi * seglen

\* psd[(freqs >= lo) & (freqs <= hi)].sum()
RECURSIVE BinSum(_, _, _, _, _, _)
BinSum(psd, i, fs, seglen, lo, hi) ==
    IF i > Len(psd) THEN WFin(0)
    ELSE LET rest == BinSum(psd, i + 1, fs, seglen, lo, hi)
             x == psd[i]
         IN IF ~InBand(i - 1, fs, seglen, lo, hi) THEN rest
            ELSE IF x.k = "nan" \/ rest.k = "nan" THEN WNan
            ELSE IF x.k = "inf" \/ rest.k = "inf" THEN WInf
            ELSE WFin(x.v + rest.v)

IsFinite(x) == x.k = "fin"

\* a guard that forgets the zero denominator
TotalUnusableNoZero(total) == ~IsFinite(total)

\* line 278
TotalUnusable(total) == (IsFinite(total) /\ total.v = 0) \/ ~IsFinite(total)

\* line 281: float(band_power / total), as numpy divides
WDiv(band, total) ==
    IF band.k = "nan" \/ total.k = "nan" THEN [k |-> "nan", num |-> 0, den |-> 1]
    ELSE IF total.k = "inf"
         THEN IF band.k = "inf" THEN [k |-> "nan", num |-> 0, den |-> 1]
              ELSE [k |-> "fin", num |-> 0, den |-> 1]
    ELSE IF total.v = 0
         THEN IF band.k = "fin" /\ band.v = 0 THEN [k |-> "nan", num |-> 0, den |-> 1]
              ELSE [k |-> "inf", num |-> 0, den |-> 1]
    ELSE IF band.k = "inf" THEN [k |-> "inf", num |-> 0, den |-> 1]
    ELSE [k |-> "fin", num |-> band.v, den |-> total.v]

WNaNOut == [k |-> "nan", num |-> 0, den |-> 1]

WelchInit ==
    /\ w_pc = "idle"
    /\ w_fn = ""
    /\ w_args = NoWelchArgs
    /\ w_seg = NoSeg
    /\ w_psd = <<>>
    /\ w_out = WNaNOut
    /\ w_prev = NoPrev

\* lines 225-231, 270-276: up to the welch call, the same in both functions
WelchEstimate(fn, a) ==
    /\ UNCHANGED w_prev
    /\ w_fn' = fn
    /\ w_args' = a
    /\ IF a.n < 2
       THEN /\ w_pc' = "done"
            /\ w_seg' = NoSeg
            /\ w_psd' = <<>>
       ELSE LET seglen == SegLen(a.nperseg, a.fs, a.n)
                seg == [nperseg |-> seglen, noverlap |-> Overlap(seglen)]
            IN /\ w_seg' = seg
               /\ IF WelchAccepts(seg)
                  THEN w_pc' = "done" /\ w_psd' \in PsdOf(a.kind, seglen)
                  ELSE w_pc' = "raised" /\ w_psd' = <<>>

\* lines 225-233
BroadbandCall(a) ==
    /\ w_pc = "idle"
    /\ WelchEstimate("broadband", a)
    /\ w_out' =
         IF w_pc' # "done" \/ a.n < 2 THEN WNaNOut
         ELSE LET total == BinSum(w_psd', 1, a.fs, w_seg'.nperseg, a.f_low, a.f_high)
              IN IF IsFinite(total) THEN [k |-> "fin", num |-> total.v, den |-> 1]
                 ELSE WNaNOut

\* lines 270-281
RelativeCall(a) ==
    /\ w_pc = "idle"
    /\ WelchEstimate("relative", a)
    /\ w_out' =
         IF w_pc' # "done" \/ a.n < 2 THEN WNaNOut
         ELSE LET total == BinSum(w_psd', 1, a.fs, w_seg'.nperseg,
                                  a.f_total_low, a.f_total_high)
                  band_power == BinSum(w_psd', 1, a.fs, w_seg'.nperseg, a.f_low, a.f_high)
              IN IF TotalUnusable(total) THEN WNaNOut
                 ELSE WDiv(band_power, total)

\* the caller takes the result
WelchRelease(keep) ==
    /\ w_pc \in {"done", "raised"}
    /\ w_prev' = IF keep /\ w_args.n >= 2
                 THEN [fn |-> w_fn, n |-> w_args.n, fs |-> w_args.fs,
                       nperseg |-> w_args.nperseg, seg |-> w_seg]
                 ELSE NoPrev
    /\ w_pc' = "idle"
    /\ w_fn' = ""
    /\ w_args' = NoWelchArgs
    /\ w_seg' = NoSeg
    /\ w_psd' = <<>>
    /\ w_out' = WNaNOut

\* the calls tried: broadband over [f_low, f_high]; relative with the band
\* [0, 1 Hz] or [0.5, 0.5 Hz] over every total range, inverted ones included
BroadbandArgs ==
    {[n |-> n, kind |-> kind, fs |-> fs, nperseg |-> np, f_low |-> lo, f_high |-> hi,
      f_total_low |-> 0, f_total_high |-> 0] :
        n \in 0..MaxW, kind \in SignalKinds, fs \in WelchRates, np \in Npersegs,
        lo \in HalfHz, hi \in HalfHz}

RelativeArgs ==
    {[n |-> n, kind |-> kind, fs |-> fs, nperseg |-> np, f_low |-> b[1], f_high |-> b[2],
      f_total_low |-> lo, f_total_high |-> hi] :
        n \in 0..MaxW, kind \in SignalKinds, fs \in WelchRates, np \in Npersegs,
        b \in {<<0, 2>>, <<1, 1>>}, lo \in HalfHz, hi \in HalfHz}

\* the calls tried for the segment parameters: a flat zero signal
SegArgs ==
    {[n |-> n, kind |-> "zero", fs |-> fs, nperseg |-> np, f_low |-> 0, f_high |-> 2,
      f_total_low |-> 0, f_total_high |-> 2] :
        n \in 0..MaxW, fs \in WelchRates, np \in Npersegs}

(***************************************************************************)
(* Claims about the Welch power estimates.                                 *)
(***************************************************************************)
\* the bins of w_psd inside the total range of the call
W_TotalBins ==
    {i \in 1..Len(w_psd) :
        /\ 2 * (i - 1) * w_args.fs >= 10 * w_args.f_total_low * w_seg.nperseg
        /\ 2 * (i - 1) * w_args.fs <= 10 * w_args.f_total_high * w_seg.nperseg}

\* the sum over the total range is zero or not finite
W_TotalZeroOrNonFinite ==
    \/ \A i \in W_TotalBins : w_psd[i] = WFin(0)
    \/ \E i \in W_TotalBins : w_psd[i].k # "fin"

W_Returned == w_pc = "done"

\* C8 as stated: relative power is NaN for every total range of zero width
C8_AsClaimed ==
    (W_Returned /\ w_fn = "relative" /\ w_args.n >= 2
        /\ w_args.f_total_low = w_args.f_total_high) => w_out.k = "nan"

\* C8: both functions return NaN, and do not raise, on fewer than 2 samples;
\* compute_relative_band_power returns NaN whenever the bin sum over
\* [f_total_low, f_total_high] is zero or not finite, so for a flat all-zero
\* signal and for a total range of zero width that holds no bin, or only bins
\* of zero density; a zero-width range on a bin of positive finite density is
\* not such a case.
C8_WelchSentinels ==
    /\ (w_fn # "" /\ w_args.n < 2) => (w_pc = "done" /\ w_out.k = "nan")
    /\ w_pc = "raised" => (w_args.n >= 2 /\ w_seg.nperseg < 1)
    /\ (W_Returned /\ w_fn = "relative" /\ w_args.n >= 2) =>
         /\ W_TotalZeroOrNonFinite => w_out.k = "nan"
         /\ w_args.kind = "zero" => w_out.k = "nan"
         /\ (w_args.f_total_low = w_args.f_total_high
               /\ \A i \in W_TotalBins : w_psd[i] = WFin(0)) => w_out.k = "nan"

\* a total range of zero width between two bins, a band with power: NaN
C8_Witness ==
    /\ W_Returned /\ w_fn = "relative" /\ w_args.n >= 2
    /\ w_args.f_total_low = w_args.f_total_high
    /\ W_TotalBins = {}
    /\ \E i \in 1..Len(w_psd) : w_psd[i] = WFin(1)
    /\ w_out.k = "nan"

\* the welch call of lines 231, 276 has been made in the call under way
W_Reached == w_pc \in {"done", "raised"} /\ w_args.n >= 2

\* the segment length asked for: nperseg, or 4 * fs, in tenths of a sample
W_Asked10 == IF w_args.nperseg.given THEN 10 * w_args.nperseg.val ELSE 4 * w_args.fs

vars == <<permVars, labelVars, ivVars, detVars, welchVars, notchVars>>

Init == PermInit /\ LabelInit /\ IvInit /\ DetInit /\ WelchInit /\ NotchInit

notPerm == <<labelVars, ivVars, detVars, welchVars, notchVars>>

notLabel == <<permVars, ivVars, detVars, welchVars, notchVars>>

notIv == <<permVars, labelVars, detVars, welchVars, notchVars>>

notDet == <<permVars, labelVars, ivVars, welchVars, notchVars>>

notWelch == <<permVars, labelVars, ivVars, detVars, notchVars>>

notNotch == <<permVars, labelVars, ivVars, detVars, welchVars>>

\* weighted_permutation_test: one call, from any input
NextPerm ==
    \/ /\ p_pc = "idle"
       /\ \E a \in PermInputs : PermCall(a)
       /\ UNCHANGED <<p_prev, notPerm>>
    \/ PermTrial /\ UNCHANGED <<p_prev, notPerm>>
    \/ PermReturn /\ UNCHANGED <<p_prev, notPerm>>

SpecPerm == Init /\ [][NextPerm]_vars

\* weighted_permutation_test: call after call
NextRepro ==
    \/ /\ p_pc = "idle"
       /\ \E a \in ReproInputs : PermCall(a)
       /\ UNCHANGED <<p_prev, notPerm>>
    \/ PermTrial /\ UNCHANGED <<p_prev, notPerm>>
    \/ PermReturn /\ UNCHANGED <<p_prev, notPerm>>
    \/ (\E keep \in BOOLEAN : PermRelease(keep)) /\ UNCHANGED notPerm

SpecRepro == Init /\ [][NextRepro]_vars

\* the label formatters, call after call
NextLabel ==
    \/ (\E p \in LabelInputs : SigLabelCall(p)) /\ UNCHANGED notLabel
    \/ (\E e \in LabelInputs : EtaLabelCall(e)) /\ UNCHANGED notLabel
    \/ LabelRelease /\ UNCHANGED notLabel

SpecLabel == Init /\ [][NextLabel]_vars

\* the run-length merger, mask after mask
NextIv ==
    \/ /\ iv_pc = "idle"
       /\ \E sig \in SeqsUpTo(BOOLEAN, MaxN), t0 \in TimeStarts, per \in TimePeriods :
             IvRuns(sig, t0, per)
       /\ UNCHANGED notIv
    \/ IvSpan /\ UNCHANGED notIv
    \/ IvDone /\ UNCHANGED notIv
    \/ IvRelease /\ UNCHANGED notIv

SpecIv == Init /\ [][NextIv]_vars

\* detect_significant_band_epochs, call after call
NextDet ==
    \/ /\ d_pc = "idle"
       /\ \E a \in DetInputs : DetCall(a)
       /\ UNCHANGED notDet
    \/ (\E mag \in Magnitudes, ordered \in BOOLEAN : DetEnvelope(mag, ordered))
          /\ UNCHANGED notDet
    \/ DetThreshold /\ UNCHANGED notDet
    \/ DetRelease /\ UNCHANGED notDet

SpecDet == Init /\ [][NextDet]_vars

\* apply_notch_filter, call after call
NextNotch ==
    \/ /\ n_pc = "idle"
       /\ \E x \in NotchSignals, is_float \in BOOLEAN, fs \in SampleRates,
            notch_freq \in NotchFreqs : NotchCall(x, is_float, fs, notch_freq)
       /\ UNCHANGED notNotch
    \/ NotchRelease /\ UNCHANGED notNotch

SpecNotch == Init /\ [][NextNotch]_vars

\* the two power estimates, call after call
NextWelch ==
    \/ /\ w_pc = "idle"
       /\ \E a \in BroadbandArgs : BroadbandCall(a)
       /\ UNCHANGED notWelch
    \/ /\ w_pc = "idle"
       /\ \E a \in RelativeArgs : RelativeCall(a)
       /\ UNCHANGED notWelch
    \/ WelchRelease(FALSE) /\ UNCHANGED notWelch

SpecWelch == Init /\ [][NextWelch]_vars

\* the two power estimates on a flat signal, each call remembering the one before
NextSeg ==
    \/ /\ w_pc = "idle"
       /\ \E a \in SegArgs : BroadbandCall(a)
       /\ UNCHANGED notWelch
    \/ /\ w_pc = "idle"
       /\ \E a \in SegArgs : RelativeCall(a)
       /\ UNCHANGED notWelch
    \/ (\E keep \in BOOLEAN : WelchRelease(keep)) /\ UNCHANGED notWelch

SpecSeg == Init /\ [][NextSeg]_vars

=============================================================================
